---- MODULE Spec2Model ----
(***************************************************************************)
(* The tool-calling conversation loop of skillset_scripts/test-openai.py   *)
(* (main) and the error taxonomy of test_scripts/tansive_client.           *)
(***************************************************************************)
EXTENDS Integers, Sequences, FiniteSets, TLC

VARIABLES
    pc,          \* position of main: see PcValues
    messages,    \* the list `messages` of main (the conversation turns)
    response,    \* choices[0] of the last completion: message and finish_reason
    toolIdx,     \* index of `tool_call` in the for loop over message.tool_calls
    toolResponse,\* the local `tool_response` of the for loop body
    requests,    \* the `messages` argument of every chat.completions.create call
    iterations,  \* number of iterations of `while True` begun
    invoked,     \* ids of the tool calls whose try block has been entered
    stdout,      \* what main printed as "Final response: ..."
    stderr,      \* the lines main printed to sys.stderr
    exitCode,    \* status of the process: Running until it ends
    invPc,       \* position of SkillInvoker.invoke
    invConfig,   \* the RetryConfig of the invocation
    invCall,     \* the ToolCallRequest of the invocation
    attempts,    \* the outcome of every attempt made, in order
    sleeps,      \* the delays slept between attempts
    invResult,   \* what invoke returned: a SkillResult or an error
    cancelled    \* the caller of the run has raised its cancellation signal

orchVars == <<pc, messages, response, toolIdx, toolResponse, requests,
              iterations, invoked, stdout, stderr, exitCode>>

invVars == <<invPc, invConfig, invCall, attempts, sleeps, invResult>>

vars == <<orchVars, invVars, cancelled>>

----------------------------------------------------------------------------
(* Bounds of the model *)

MaxIter == 2
MaxCalls == 2

\* the iteration cap the specification asks for (main has none)
MaxTurns == 1

----------------------------------------------------------------------------
(* Values *)

None == "None"

\* exitCode of a process that has not ended
Running == -1

LLM_BLOCKED_BY_POLICY_PROMPT == "policy prompt"
question == "What's the weather like in San Francisco?"

CallIds == {"call_a", "call_b"}
GoodArguments == "{\"location\": \"San Francisco, CA\"}"
BadArguments == "{\"location\": "
Arguments == {GoodArguments, BadArguments}
Contents == {None, "It's 72F and sunny."}
FinishReasons == {None, "", "tool_calls", "stop"}

\* json.dumps(mock_response)
MockToolResponse == "{\"temperature\": \"72F\", \"condition\": \"Sunny\", \"humidity\": \"45%\"}"

PcValues == {"LoopHead", "AwaitingModel", "ModelExcept", "Decide",
             "ExecutingTools", "AppendResult", "ToolExcept", "Done", "Exited"}

\* Python truthiness of an Optional[str]
Truthy(v) == v /= None /\ v /= ""

SeqsUpTo(S, n) == UNION {[1..k -> S] : k \in 0..n}

ToolCalls == [id : CallIds, name : {"get_weather"}, arguments : Arguments]

\* The responses the completion endpoint may return (choices[0])
Responses == [content : Contents,
              tool_calls : SeqsUpTo(ToolCalls, MaxCalls),
              finish_reason : FinishReasons]

\* a parser that accepts every payload
JsonLoads_Lenient(s) == TRUE

\* json.loads(tool_call.function.arguments) returns (TRUE) or raises (FALSE)
JsonLoads(s) == s = GoodArguments

\* message.model_dump(exclude_unset=True)
ModelDump(r) == [role |-> "assistant", content |-> r.content, tool_calls |-> r.tool_calls]

\* the result is fed back as a user message, without the id of its call
ToolMessage_AsUser(id, content) == [role |-> "user", content |-> content]

ToolMessage(id, content) == [role |-> "tool", tool_call_id |-> id, content |-> content]

SeedMessages == << [role |-> "system", content |-> LLM_BLOCKED_BY_POLICY_PROMPT],
                   [role |-> "user", content |-> question] >>

----------------------------------------------------------------------------
(* main *)

OrchInit ==
    /\ pc = "LoopHead"
    /\ messages = SeedMessages
    /\ response = None
    /\ toolIdx = 0
    /\ toolResponse = None
    /\ requests = << >>
    /\ iterations = 0
    /\ invoked = << >>
    /\ stdout = << >>
    /\ stderr = << >>
    /\ exitCode = Running

\* no skill invocation is under way
InvIdle ==
    /\ invPc = "Idle"
    /\ invConfig = None
    /\ invCall = None
    /\ attempts = << >>
    /\ sleeps = << >>
    /\ invResult = None

Init == OrchInit /\ InvIdle /\ cancelled = FALSE

\* a request that carries the seed messages only
RequestMessages_SeedOnly == SeedMessages

\* The messages argument of chat.completions.create
RequestMessages == messages

\* while True: try: openai_client.chat.completions.create(messages=messages, ...)
CreateCompletion ==
    /\ pc = "LoopHead"
    /\ iterations < MaxIter
    /\ iterations' = iterations + 1
    /\ requests' = Append(requests, RequestMessages)
    /\ pc' = "AwaitingModel"
    /\ UNCHANGED <<messages, response, toolIdx, toolResponse, invoked, stdout, stderr, exitCode>>
    /\ UNCHANGED <<invVars, cancelled>>

\* the completion call returns a response
ModelResponds ==
    /\ pc = "AwaitingModel"
    /\ \E r \in Responses : response' = r
    /\ pc' = "Decide"
    /\ UNCHANGED <<messages, toolIdx, toolResponse, requests, iterations, invoked, stdout, stderr, exitCode>>
    /\ UNCHANGED <<invVars, cancelled>>

\* the completion call raises
ModelRaises ==
    /\ pc = "AwaitingModel"
    /\ pc' = "ModelExcept"
    /\ UNCHANGED <<messages, response, toolIdx, toolResponse, requests, iterations, invoked, stdout, stderr, exitCode>>
    /\ UNCHANGED <<invVars, cancelled>>

\* a handler that swallows the failure and asks the model again
ModelExceptTarget_Retry == "LoopHead"

\* where main goes from `except Exception` of the completion call
ModelExceptTarget == "Exited"

\* except Exception as e: print("OpenAI call failed"); sys.exit(1)
HandleModelError ==
    /\ pc = "ModelExcept"
    /\ stderr' = Append(stderr, "OpenAI call failed")
    /\ pc' = ModelExceptTarget
    /\ exitCode' = IF ModelExceptTarget = "Exited" THEN 1 ELSE exitCode
    /\ UNCHANGED <<messages, response, toolIdx, toolResponse, requests, iterations, invoked, stdout>>
    /\ UNCHANGED <<invVars, cancelled>>

\* the check without the truthiness test: finish_reason != "tool_calls"
IsFinal_NoTruthiness(r) == r.finish_reason /= "tool_calls"

\* the tool-call check first: a response that carries tool calls is never final
IsFinal_ToolCallsFirst(r) ==
    Truthy(r.finish_reason) /\ r.finish_reason /= "tool_calls" /\ Len(r.tool_calls) = 0

\* if finish_reason and finish_reason != "tool_calls"
IsFinal(r) == Truthy(r.finish_reason) /\ r.finish_reason /= "tool_calls"

\* if not message.tool_calls
NoToolCalls(r) == Len(r.tool_calls) = 0

\* a final line that loses the content
FinalResponseLine_Lost(r) == None

\* the content printed by print(f"Final response: {message.content}")
FinalResponseLine(r) == r.content

\* print("Final response: ..."); break
FinishBreak ==
    /\ pc = "Decide"
    /\ IsFinal(response)
    /\ stdout' = Append(stdout, FinalResponseLine(response))
    /\ pc' = "Done"
    /\ exitCode' = 0
    /\ UNCHANGED <<messages, response, toolIdx, toolResponse, requests, iterations, invoked, stderr>>
    /\ UNCHANGED <<invVars, cancelled>>

\* if not message.tool_calls: break
NoToolCallsBreak ==
    /\ pc = "Decide"
    /\ ~IsFinal(response)
    /\ NoToolCalls(response)
    /\ pc' = "Done"
    /\ exitCode' = 0
    /\ UNCHANGED <<messages, response, toolIdx, toolResponse, requests, iterations, invoked, stdout, stderr>>
    /\ UNCHANGED <<invVars, cancelled>>

\* the assistant message is not appended before the tool calls run
WithAssistant_Skipped(msgs, r) == msgs

\* the list is rebuilt from the seed messages instead of being appended to
WithAssistant_Reset(msgs, r) == Append(SeedMessages, ModelDump(r))

\* messages after messages.append(message.model_dump(exclude_unset=True))
WithAssistant(msgs, r) == Append(msgs, ModelDump(r))

\* messages.append(message.model_dump(...)); for tool_call in message.tool_calls
AppendAssistant ==
    /\ pc = "Decide"
    /\ ~IsFinal(response)
    /\ ~NoToolCalls(response)
    /\ messages' = WithAssistant(messages, response)
    /\ toolIdx' = 1
    /\ pc' = "ExecutingTools"
    /\ UNCHANGED <<response, toolResponse, requests, iterations, invoked, stdout, stderr, exitCode>>
    /\ UNCHANGED <<invVars, cancelled>>

\* the loop walks the calls from the last to the first
CurrentCall_Reversed == response.tool_calls[Len(response.tool_calls) - toolIdx + 1]

\* tool_call of `for tool_call in message.tool_calls`
CurrentCall == response.tool_calls[toolIdx]

\* try: tool_args = json.loads(...); tool_response = json.dumps(mock_response)
InvokeTool ==
    /\ pc = "ExecutingTools"
    /\ invoked' = Append(invoked, CurrentCall.id)
    /\ IF JsonLoads(CurrentCall.arguments)
         THEN /\ toolResponse' = MockToolResponse
              /\ pc' = "AppendResult"
         ELSE /\ toolResponse' = toolResponse
              /\ pc' = "ToolExcept"
    /\ UNCHANGED <<messages, response, toolIdx, requests, iterations, stdout, stderr, exitCode>>
    /\ UNCHANGED <<invVars, cancelled>>

\* every result carries the id of the first call of the response
ResultCallId_First == response.tool_calls[1].id

\* every result carries the id of the first call ever invoked
ResultCallId_Stale == invoked[1]

\* the tool_call_id of the tool message appended for the current call
ResultCallId == CurrentCall.id

\* messages.append({"role": "tool", ...}); next tool_call, or back to while True
AppendToolResult ==
    /\ pc = "AppendResult"
    /\ messages' = Append(messages, ToolMessage(ResultCallId, toolResponse))
    /\ toolIdx' = toolIdx + 1
    /\ pc' = IF toolIdx + 1 > Len(response.tool_calls) THEN "LoopHead" ELSE "ExecutingTools"
    /\ UNCHANGED <<response, toolResponse, requests, iterations, invoked, stdout, stderr, exitCode>>
    /\ UNCHANGED <<invVars, cancelled>>

\* except Exception as e: print("Tool call failed"); sys.exit(1)
HandleToolError ==
    /\ pc = "ToolExcept"
    /\ stderr' = Append(stderr, "Tool call failed")
    /\ pc' = "Exited"
    /\ exitCode' = 1
    /\ UNCHANGED <<messages, response, toolIdx, toolResponse, requests, iterations, invoked, stdout>>
    /\ UNCHANGED <<invVars, cancelled>>

Next ==
    \/ CreateCompletion
    \/ ModelResponds
    \/ ModelRaises
    \/ HandleModelError
    \/ FinishBreak
    \/ NoToolCallsBreak
    \/ AppendAssistant
    \/ InvokeTool
    \/ AppendToolResult
    \/ HandleToolError

Spec == Init /\ [][Next]_vars

\* the caller raises the cancellation signal of a run in flight; main has no
\* parameter, flag or handler that receives it
Cancel ==
    /\ ~cancelled
    /\ iterations > 0
    /\ pc \notin {"Done", "Exited"}
    /\ cancelled' = TRUE
    /\ UNCHANGED <<orchVars, invVars>>

NextCancel ==
    \/ Next
    \/ Cancel

SpecCancel == Init /\ [][NextCancel]_vars

----------------------------------------------------------------------------
(* tansive_client.exceptions: each class is a record tagged with its kind *)

TansiveError(message) == [kind |-> "Error", message |-> message]

TansiveConnectionError(message) == [kind |-> "Connection", message |-> message]

TansiveTimeoutError(message) == [kind |-> "Timeout", message |-> message]

\* a constructor that does not keep the status code it is given
TansiveAPIError_StatusLost(message, status_code, response_body) ==
    [kind |-> "APIStatus", message |-> message,
     status_code |-> 0, response_body |-> response_body]

\* __init__(self, message, status_code=None, response_body=None)
TansiveAPIError(message, status_code, response_body) ==
    [kind |-> "APIStatus", message |-> message,
     status_code |-> status_code, response_body |-> response_body]

\* a constructor that loses the error it wraps: last_error is a bare TansiveError
TansiveRetryError_NoCause(message, last_error) ==
    [kind |-> "Retry", message |-> message, last_error |-> TansiveError(message)]

\* __init__(self, message, last_error=None)
TansiveRetryError(message, last_error) ==
    [kind |-> "Retry", message |-> message, last_error |-> last_error]

TansiveValidationError(message) == [kind |-> "Validation", message |-> message]

----------------------------------------------------------------------------
(* SkillInvoker.invoke(call, config) *)

MaxAttemptsBound == 3

HttpNotFound == 404
HttpUnavailable == 503

RetryableKindsUniverse == {"Connection", "Timeout", "APIStatus5xx"}

RetryConfigs == [maxAttempts : 1..MaxAttemptsBound,
                 baseDelay : {1},
                 backoffMultiplier : {2},
                 retryableKinds : SUBSET RetryableKindsUniverse]

SkillResult(id, output) == [kind |-> "SkillResult", tool_call_id |-> id, output |-> output]

\* the failures the execution surface may raise on attempt k
AttemptFailures(k) ==
    { TansiveConnectionError(<<"cannot reach endpoint", k>>),
      TansiveTimeoutError(<<"deadline exceeded", k>>),
      TansiveAPIError(<<"error status", k>>, HttpNotFound, "not found"),
      TansiveAPIError(<<"error status", k>>, HttpUnavailable, "unavailable") }

\* the retry-eligibility kind of a failure: an APIStatus counts by its status class
RetryKind(err) ==
    IF err.kind = "APIStatus"
    THEN (IF err.status_code >= 500 THEN "APIStatus5xx" ELSE "APIStatus4xx")
    ELSE err.kind

\* a policy that retries every failure
Retryable_Always(err, config) == TRUE

Retryable(err, config) == RetryKind(err) \in config.retryableKinds

RECURSIVE Pow(_, _)
Pow(b, e) == IF e = 0 THEN 1 ELSE b * Pow(b, e - 1)

\* baseDelay * backoffMultiplier^(attempt-1)
Backoff(attempt, config) == config.baseDelay * Pow(config.backoffMultiplier, attempt - 1)

InitInvoker ==
    /\ OrchInit
    /\ invPc = "Validate"
    /\ invConfig \in RetryConfigs
    /\ invCall \in ToolCalls
    /\ attempts = << >>
    /\ sleeps = << >>
    /\ invResult = None
    /\ cancelled = FALSE

\* the argument payload is parsed before any attempt
Validate ==
    /\ invPc = "Validate"
    /\ IF JsonLoads(invCall.arguments)
         THEN /\ invPc' = "Attempt"
              /\ invResult' = invResult
         ELSE /\ invPc' = "Returned"
              /\ invResult' = TansiveValidationError(<<"arguments do not parse", 0>>)
    /\ UNCHANGED <<invConfig, invCall, attempts, sleeps>>
    /\ UNCHANGED <<orchVars, cancelled>>

\* an attempt that returns the tool's payload
AttemptSucceeds ==
    /\ invPc = "Attempt"
    /\ attempts' = Append(attempts, SkillResult(invCall.id, MockToolResponse))
    /\ invResult' = SkillResult(invCall.id, MockToolResponse)
    /\ invPc' = "Returned"
    /\ UNCHANGED <<invConfig, invCall, sleeps>>
    /\ UNCHANGED <<orchVars, cancelled>>

\* an attempt that fails: retried, surfaced as it is, or wrapped on exhaustion
AttemptFails ==
    /\ invPc = "Attempt"
    /\ \E err \in AttemptFailures(Len(attempts) + 1) :
         /\ attempts' = Append(attempts, err)
         /\ IF ~Retryable(err, invConfig)
              THEN /\ invResult' = err
                   /\ invPc' = "Returned"
              ELSE IF Len(attempts) + 1 < invConfig.maxAttempts
                THEN /\ invResult' = invResult
                     /\ invPc' = "Sleep"
                ELSE /\ invResult' = TansiveRetryError(<<"retries exhausted", Len(attempts) + 1>>, err)
                     /\ invPc' = "Returned"
    /\ UNCHANGED <<invConfig, invCall, sleeps>>
    /\ UNCHANGED <<orchVars, cancelled>>

\* the backoff sleep before the next attempt
Sleep ==
    /\ invPc = "Sleep"
    /\ sleeps' = Append(sleeps, Backoff(Len(attempts), invConfig))
    /\ invPc' = "Attempt"
    /\ UNCHANGED <<invConfig, invCall, attempts, invResult>>
    /\ UNCHANGED <<orchVars, cancelled>>

InvokerNext ==
    \/ Validate
    \/ AttemptSucceeds
    \/ AttemptFails
    \/ Sleep

SpecInvoker == InitInvoker /\ [][InvokerNext]_vars

----------------------------------------------------------------------------
(* Helpers of the properties *)

Last(s) == s[Len(s)]

AssistantIdxs(msgs) == {i \in 1..Len(msgs) : msgs[i].role = "assistant"}

NumAssistant(msgs) == Cardinality(AssistantIdxs(msgs))

\* index of the latest assistant message at or before position i, 0 when there is none
RECURSIVE AssistantAtOrBefore(_, _)
AssistantAtOrBefore(msgs, i) ==
    IF i = 0 THEN 0
    ELSE IF msgs[i].role = "assistant" THEN i
    ELSE AssistantAtOrBefore(msgs, i - 1)

\* index of the latest assistant message, 0 when there is none
LastAssistantIdx(msgs) == AssistantAtOrBefore(msgs, Len(msgs))

\* index of the first assistant message at or after position j, Len+1 when there is none
RECURSIVE AssistantAtOrAfter(_, _)
AssistantAtOrAfter(msgs, j) ==
    IF j > Len(msgs) THEN Len(msgs) + 1
    ELSE IF msgs[j].role = "assistant" THEN j
    ELSE AssistantAtOrAfter(msgs, j + 1)

\* index of the first assistant message after position i, Len+1 when there is none
NextAssistantIdx(msgs, i) == AssistantAtOrAfter(msgs, i + 1)

CallIdsOf(calls) == [k \in 1..Len(calls) |-> calls[k].id]

IsPrefix(s, t) == Len(s) <= Len(t) /\ SubSeq(t, 1, Len(s)) = s

ToolFailureExit == pc = "Exited" /\ stderr /= << >> /\ Last(stderr) = "Tool call failed"

ModelFailureExit == pc = "Exited" /\ stderr /= << >> /\ Last(stderr) = "OpenAI call failed"

\* the for loop over the latest assistant message's tool calls is still running,
\* or was cut short by the exit of a failed tool call
TurnOpen == pc \in {"ExecutingTools", "AppendResult", "ToolExcept"} \/ ToolFailureExit

\* the turn of the assistant message at index i is finished
TurnFinished(i) == i < LastAssistantIdx(messages) \/ ~TurnOpen

\* the messages that follow the assistant message at i, up to the next assistant message
TurnTail(msgs, i) == SubSeq(msgs, i + 1, NextAssistantIdx(msgs, i) - 1)

TypeOK ==
    /\ pc \in PcValues
    /\ iterations \in 0..MaxIter
    /\ Len(requests) \in 0..MaxIter
    /\ exitCode \in {Running, 0, 1}

----------------------------------------------------------------------------
(* C1: for every assistant message with tool calls c1..cn whose turn is       *)
(* finished, the messages that follow it up to the next assistant message    *)
(* (or the end of turns) are exactly n tool-role messages whose tool_call_id *)
(* are c1.id..cn.id in that order; at the loop head after a tool-calling     *)
(* response that assistant message is the dump of the response.              *)
C1_ToolMessagesMatchCalls ==
    /\ \A i \in AssistantIdxs(messages) :
         TurnFinished(i) =>
           LET tail == TurnTail(messages, i) IN
             /\ Len(tail) = Len(messages[i].tool_calls)
             /\ \A k \in 1..Len(tail) :
                  /\ tail[k].role = "tool"
                  /\ tail[k].tool_call_id = messages[i].tool_calls[k].id
    /\ (pc = "LoopHead" /\ iterations > 0) =>
         /\ LastAssistantIdx(messages) > 0
         /\ messages[LastAssistantIdx(messages)] = ModelDump(response)
         /\ Len(messages) = LastAssistantIdx(messages) + Len(response.tool_calls)

C1_Witness ==
    /\ pc = "LoopHead"
    /\ iterations = 1
    /\ CallIdsOf(response.tool_calls) = <<"call_b", "call_a">>
    /\ Len(messages) = 5
    /\ messages[4].tool_call_id = "call_b"
    /\ messages[5].tool_call_id = "call_a"

(* C2: a failed tool call never ends the run: the process is never exited    *)
(* by the handler of a tool failure.                                         *)
C2_ToolFailureNeverEndsRun == ~ToolFailureExit

(* C3: the number of loop iterations never exceeds the configured cap.       *)
C3_IterationsWithinCap == iterations <= MaxTurns

(* C4: every tool-role message of turns carries the id of a tool call of the *)
(* latest assistant message before it, with only tool-role messages between. *)
C4_ToolIdMatchesPrecedingAssistant ==
    \A i \in 1..Len(messages) :
      messages[i].role = "tool" =>
        \E j \in 1..(i - 1) :
          /\ messages[j].role = "assistant"
          /\ \A k \in (j + 1)..(i - 1) : messages[k].role = "tool"
          /\ \E c \in 1..Len(messages[j].tool_calls) :
               messages[j].tool_calls[c].id = messages[i].tool_call_id

C4_Witness ==
    /\ NumAssistant(messages) = 2
    /\ Len(messages) = 6
    /\ CallIdsOf(messages[3].tool_calls) = <<"call_a">>
    /\ CallIdsOf(messages[5].tool_calls) = <<"call_b">>
    /\ messages[6].role = "tool"
    /\ messages[6].tool_call_id = "call_b"

(* C5: whenever a tool call of the current response is being executed (or    *)
(* has been), the assistant message that emitted it is already in turns: it  *)
(* is the latest assistant message, followed only by this turn's results.    *)
C5_AssistantBeforeToolExecution ==
    /\ pc \in {"ExecutingTools", "AppendResult", "ToolExcept"} =>
         /\ LastAssistantIdx(messages) > 0
         /\ messages[LastAssistantIdx(messages)] = ModelDump(response)
         /\ Len(messages) = LastAssistantIdx(messages) + toolIdx - 1
    /\ Len(invoked) > 0 => NumAssistant(messages) > 0
    /\ pc \in {"AppendResult", "ToolExcept"} =>
         /\ invoked /= << >>
         /\ Last(invoked) = messages[LastAssistantIdx(messages)].tool_calls[toolIdx].id

C5_Witness ==
    /\ pc = "AppendResult"
    /\ toolIdx = 1
    /\ invoked = <<"call_a">>
    /\ Last(messages).role = "assistant"

\* the condition of C6 on a response: a finish reason that is set and is not
\* "tool_calls", or no tool calls
ResponseEndsLoop(r) ==
    \/ r.finish_reason \notin {None, "", "tool_calls"}
    \/ Len(r.tool_calls) = 0

(* C6: the loop breaks (Done) exactly in the iteration whose response has a  *)
(* finish reason other than "tool_calls" or no tool calls: every earlier     *)
(* iteration appended a tool-calling assistant message; a final answer in    *)
(* iteration 1 ends the run after one request and no tool invocation.        *)
C6_TerminatesAtFinalResponse ==
    /\ [](pc = "Done" =>
            /\ ResponseEndsLoop(response)
            /\ NumAssistant(messages) = iterations - 1
            /\ \A i \in AssistantIdxs(messages) : Len(messages[i].tool_calls) > 0
            /\ (iterations = 1 => invoked = << >> /\ Len(requests) = 1 /\ messages = SeedMessages))
    /\ [][/\ pc = "Decide" => (pc' = "Done" <=> ResponseEndsLoop(response))
          /\ pc' = "Done" => pc = "Decide"]_vars

C6_Witness ==
    /\ pc = "Done"
    /\ iterations = 1
    /\ response.finish_reason = "stop"
    /\ invoked = << >>

EndToEndScenario ==
    /\ pc = "Done"
    /\ iterations = 2
    /\ IsFinal(response)
    /\ Len(invoked) = 1

C8_ModelFailureIsFatal ==
    /\ [](ModelFailureExit => exitCode = 1)
    /\ [][/\ (pc = "AwaitingModel" /\ pc' /= "Decide") => pc' = "ModelExcept"
          /\ pc = "ModelExcept" =>
               /\ pc' = "Exited"
               /\ exitCode' = 1
               /\ stderr' = Append(stderr, "OpenAI call failed")
               /\ UNCHANGED <<messages, requests, invoked>>
          /\ pc = "Exited" => UNCHANGED <<pc, messages, requests, invoked>>]_vars

C8_Witness ==
    /\ ModelFailureExit
    /\ iterations = 2
    /\ Len(messages) > 2

(* C9: one completion request per loop iteration, each carrying the whole    *)
(* of turns at that moment: the seed messages and everything appended since, *)
(* in order.                                                                 *)
C9_OneRequestWithFullTurns ==
    /\ Len(requests) = iterations
    /\ Len(requests) = NumAssistant(messages) + (IF pc = "LoopHead" \/ TurnOpen THEN 0 ELSE 1)
    /\ pc \in {"AwaitingModel", "ModelExcept", "Decide", "Done"} => Last(requests) = messages
    /\ \A k \in 1..Len(requests) :
         /\ IsPrefix(SeedMessages, requests[k])
         /\ IsPrefix(requests[k], messages)
         /\ k > 1 => Len(requests[k]) = Len(requests[k - 1]) + 1 + Len(requests[k][Len(requests[k - 1]) + 1].tool_calls)

C9_Witness ==
    /\ pc = "AwaitingModel"
    /\ Len(requests) = 2
    /\ Len(requests[2]) = 5
    /\ requests[2] = messages
\* every attempt made so far failed with a kind in retryableKinds
AllAttemptsFailedRetryable ==
    \A k \in 1..Len(attempts) :
      /\ attempts[k].kind /= "SkillResult"
      /\ RetryKind(attempts[k]) \in invConfig.retryableKinds

(* C10: when every attempt fails with a kind in retryableKinds, invoke makes *)
(* exactly maxAttempts attempts and returns a Retry error whose cause is the *)
(* failure of the last attempt; it never makes more than maxAttempts.        *)
C10_ExhaustionWrapsLastFailure ==
    /\ invPc /= "Idle" => Len(attempts) <= invConfig.maxAttempts
    /\ (invPc = "Returned" /\ attempts /= << >> /\ AllAttemptsFailedRetryable) =>
         /\ Len(attempts) = invConfig.maxAttempts
         /\ invResult.kind = "Retry"
         /\ invResult.last_error = attempts[invConfig.maxAttempts]
         /\ Len(sleeps) = invConfig.maxAttempts - 1

C10_Witness ==
    /\ invPc = "Returned"
    /\ invConfig.maxAttempts = 3
    /\ invConfig.retryableKinds = {"Timeout"}
    /\ Len(attempts) = 3
    /\ \A k \in 1..3 : attempts[k] = TansiveTimeoutError(<<"deadline exceeded", k>>)
    /\ invResult = TansiveRetryError(<<"retries exhausted", 3>>, TansiveTimeoutError(<<"deadline exceeded", 3>>))

(* C11: malformed arguments are rejected by the validation that precedes the *)
(* attempts: invoke returns a Validation error from its single pass, with no *)
(* attempt on the execution surface and no backoff sleep, whatever           *)
(* maxAttempts and retryableKinds are; no attempt is ever made before the    *)
(* arguments have been validated.                                            *)
C11_ValidationNeverRetried ==
    /\ invPc = "Validate" => attempts = << >> /\ sleeps = << >>
    /\ (invPc \notin {"Idle", "Validate"} /\ invCall.arguments = BadArguments) =>
         /\ invPc = "Returned"
         /\ invResult.kind = "Validation"
         /\ attempts = << >>
         /\ sleeps = << >>
    /\ attempts /= << >> => invCall.arguments = GoodArguments

C11_Witness ==
    /\ invPc = "Returned"
    /\ invCall.arguments = BadArguments
    /\ invConfig.maxAttempts = 3
    /\ invConfig.retryableKinds = RetryableKindsUniverse
    /\ invResult = TansiveValidationError(<<"arguments do not parse", 0>>)
    /\ attempts = << >>

\* the attempt k was answered by the endpoint with its 404 response
AnsweredNotFound(k) ==
    /\ attempts[k].kind = "APIStatus"
    /\ attempts[k].response_body = "not found"

(* C12: an attempt answered with a 4xx status is the last one, even when     *)
(* APIStatus failures are retry-eligible and attempts remain: a 4xx on the   *)
(* first attempt gives exactly one attempt, no sleep, and the APIStatus      *)
(* error itself (not Retry) with the status code of the response.            *)
C12_ClientErrorNeverRetried ==
    \A k \in 1..Len(attempts) :
      AnsweredNotFound(k) =>
        /\ k = Len(attempts)
        /\ invPc = "Returned"
        /\ invResult.kind = "APIStatus"
        /\ invResult.status_code = HttpNotFound
        /\ invResult.status_code >= 400 /\ invResult.status_code < 500
        /\ invResult = attempts[k]
        /\ Len(sleeps) = k - 1

C12_Witness ==
    /\ invPc = "Returned"
    /\ invConfig.maxAttempts = 3
    /\ "APIStatus5xx" \in invConfig.retryableKinds
    /\ Len(attempts) = 1
    /\ AnsweredNotFound(1)
    /\ invResult.status_code = HttpNotFound

(* C13: attempt k+1 is started only after attempt k failed with a kind in    *)
(* retryableKinds and k < maxAttempts; a failure of another kind ends the    *)
(* invocation at that attempt with that error, and a successful attempt ends *)
(* it with its SkillResult.                                                  *)
C13_RetryOnlyRetryableKinds ==
    /\ \A k \in 1..(Len(attempts) - 1) :
         /\ attempts[k].kind /= "SkillResult"
         /\ RetryKind(attempts[k]) \in invConfig.retryableKinds
         /\ k < invConfig.maxAttempts
    /\ invPc = "Sleep" =>
         /\ Last(attempts).kind /= "SkillResult"
         /\ RetryKind(Last(attempts)) \in invConfig.retryableKinds
         /\ Len(attempts) < invConfig.maxAttempts
    /\ (attempts /= << >> /\ Last(attempts).kind = "SkillResult") =>
         /\ invPc = "Returned"
         /\ invResult = Last(attempts)
    /\ (attempts /= << >> /\ Last(attempts).kind /= "SkillResult"
          /\ RetryKind(Last(attempts)) \notin invConfig.retryableKinds) =>
         /\ invPc = "Returned"
         /\ invResult = Last(attempts)

C13_Witness ==
    /\ invPc = "Returned"
    /\ invConfig.maxAttempts = 3
    /\ invConfig.retryableKinds = {"Timeout"}
    /\ Len(attempts) = 2
    /\ attempts[1].kind = "Timeout"
    /\ attempts[2].kind = "Connection"
    /\ invResult = attempts[2]

\* number of tool-role messages among the first n messages
NumToolUpTo(msgs, n) == Cardinality({i \in 1..n : msgs[i].role = "tool"})

\* results of the latest assistant message's turn that are in turns
ResultsThisTurn == Len(messages) - LastAssistantIdx(messages)

\* tool calls of the latest assistant message whose try block has been entered
InvokedThisTurn == Len(invoked) - NumToolUpTo(messages, LastAssistantIdx(messages))

InToolLoop == pc \in {"ExecutingTools", "AppendResult", "ToolExcept"}

C15_NoNewWorkAfterCancel ==
    [][cancelled => (Len(requests') = Len(requests) /\ Len(invoked') = Len(invoked))]_vars

\* the state of the Orchestrator's state machine
Phase ==
    CASE pc \in {"LoopHead", "AwaitingModel", "ModelExcept", "Decide"} -> "AwaitingModel"
      [] pc \in {"ExecutingTools", "AppendResult", "ToolExcept"} -> "ExecutingTools"
      [] pc = "Done" -> "Done"
      [] pc = "Exited" -> "Failed"

AllowedTransitions ==
    { <<"AwaitingModel", "ExecutingTools">>, <<"ExecutingTools", "AwaitingModel">>,
      <<"AwaitingModel", "Done">>, <<"AwaitingModel", "Failed">> }

(* C16: the Orchestrator changes state only along AwaitingModel ->           *)
(* ExecutingTools, ExecutingTools -> AwaitingModel, AwaitingModel -> Done    *)
(* and AwaitingModel -> Failed, and after Done no request, invocation or     *)
(* change of turns follows.                                                  *)
C16_OnlyListedTransitions ==
    [][/\ Phase' /= Phase => <<Phase, Phase'>> \in AllowedTransitions
       /\ Phase = "Done" => UNCHANGED <<messages, requests, invoked>>]_vars

\* the ids of the tool calls of the assistant messages of msgs, in order
RECURSIVE EmittedCallIds(_)
EmittedCallIds(msgs) ==
    IF msgs = << >> THEN << >>
    ELSE LET m == msgs[1] IN
         (IF m.role = "assistant" THEN CallIdsOf(m.tool_calls) ELSE << >>)
           \o EmittedCallIds(Tail(msgs))

(* C17: when the run is between turns or has ended, the tool calls handed to *)
(* execution are exactly the calls of the tool-calling responses, each once, *)
(* in order: none twice, none skipped.                                       *)
C17_EachCallExecutedOnce ==
    pc \in {"LoopHead", "Done", "Exited"} => invoked = EmittedCallIds(messages)

(* C18: turns is append-only: every step leaves it unchanged or extends it   *)
(* at the end; the seed messages stay at positions 1 and 2; the execution of *)
(* a tool call does not touch turns.                                         *)
C18_TurnsAppendOnly ==
    /\ [](Len(messages) >= 2 /\ SubSeq(messages, 1, 2) = SeedMessages)
    /\ [](\A k \in 1..Len(requests) : IsPrefix(requests[k], messages))
    /\ [][/\ IsPrefix(messages, messages')
          /\ Len(invoked') > Len(invoked) => messages' = messages]_vars

C18_Witness ==
    /\ iterations = 2
    /\ pc = "LoopHead"
    /\ Len(messages) = 8
    /\ SubSeq(messages, 1, 5) = requests[2]

(* C19: the finish-reason check comes first: a response whose finish reason  *)
(* is set and is not "tool_calls" ends the loop even with tool calls, and in *)
(* that iteration nothing is executed and nothing is appended; a response    *)
(* with an absent or empty finish reason and a tool call is a tool-calling   *)
(* turn: its assistant message is appended and the loop goes on.             *)
C19_FinishReasonFirst ==
    /\ [](pc = "Done" /\ response.finish_reason \notin {None, "", "tool_calls"} =>
            /\ messages = Last(requests)
            /\ Len(invoked) = NumToolUpTo(messages, Len(messages)))
    /\ [][/\ (pc = "Decide" /\ response.finish_reason \notin {None, "", "tool_calls"}) =>
               /\ pc' = "Done"
               /\ UNCHANGED <<messages, invoked, requests>>
          /\ (pc = "Decide" /\ response.finish_reason \in {None, ""}
                /\ Len(response.tool_calls) > 0) =>
               /\ pc' = "ExecutingTools"
               /\ messages' = Append(messages, ModelDump(response))]_vars

C19_Witness ==
    /\ pc = "Done"
    /\ response.finish_reason = "stop"
    /\ Len(response.tool_calls) = 2
    /\ invoked = << >>
    /\ messages = SeedMessages

\* the second case of C19: an empty finish reason with a tool call
C19_WitnessEmptyReason ==
    /\ pc = "ExecutingTools"
    /\ response.finish_reason = ""
    /\ Last(messages) = ModelDump(response)

\* in msgs every tool call of every assistant message is answered, between that
\* message and the next assistant message, by as many tool-role messages with
\* its id as there are calls with that id (one, when the ids are distinct)
NoDanglingCall(msgs) ==
    \A i \in AssistantIdxs(msgs) :
      LET tail == TurnTail(msgs, i)
          calls == msgs[i].tool_calls
      IN /\ \A k \in 1..Len(tail) : tail[k].role = "tool"
         /\ \A c \in 1..Len(calls) :
              /\ \E k \in 1..Len(tail) : tail[k].tool_call_id = calls[c].id
              /\ Cardinality({k \in 1..Len(tail) : tail[k].tool_call_id = calls[c].id})
                   = Cardinality({d \in 1..Len(calls) : calls[d].id = calls[c].id})

(* C20: every completion request is sent with turns free of dangling tool    *)
(* calls: each call of each assistant message in it has its tool-role        *)
(* message, after that assistant message and before the next.                *)
C20_NoDanglingCallAtRequest ==
    /\ \A k \in 1..Len(requests) : NoDanglingCall(requests[k])
    /\ pc \in {"LoopHead", "AwaitingModel"} => NoDanglingCall(messages)

C20_Witness ==
    /\ pc = "AwaitingModel"
    /\ Len(requests) = 2
    /\ Len(requests[2]) = 5
    /\ CallIdsOf(requests[2][3].tool_calls) = <<"call_a", "call_b">>
    /\ requests[2][4].tool_call_id = "call_a"
    /\ requests[2][5].tool_call_id = "call_b"

====
